---- MODULE Spec2Model ----
(***************************************************************************)
(* GTP transceiver of gtp_7series.py: the QPLL divider search              *)
(* (GTPQuadPLL.compute_config), the construction of the link on a solved   *)
(* configuration (GTP.__init__) and the bring-up wiring between the QPLL,  *)
(* the TX and RX initialisers and the clock aligner.                       *)
(*                                                                         *)
(* Frequencies are fixed-point numbers with four fractional bits, in kHz:  *)
(* the value f stands for f/16 kHz.  The divisions of compute_config are   *)
(* by m in {1,2} and d in {1,2,4,8}, so on whole-kHz inputs every quotient *)
(* is exact in this representation, as it is in IEEE double arithmetic on  *)
(* the same inputs.                                                        *)
(***************************************************************************)
EXTENDS Integers, Sequences, FiniteSets, TLC

VARIABLES
    refclk_freq,    \* argument of GTPQuadPLL.__init__
    linerate,       \* argument of GTPQuadPLL.__init__
    config,         \* GTPQuadPLL.config, NoConfig before it is computed
    error,          \* the exception raised during construction, NoError if none
    pc,             \* construction progress
    clock_aligner,  \* argument of GTP.__init__
    qpll_lock,      \* GTPQuadPLL.lock (PLL0LOCK)
    tx_state,       \* GTPTXInit state
    rx_state,       \* GTPRXInit state
    al_ready,       \* BruteforceClockAligner.ready
    al_restart,     \* BruteforceClockAligner.restart (pulse)
    al_invoked,     \* history: the aligner has run a check
    from_ready,     \* history: the current loss of alignment began in Ready
    mismatches,     \* history: mismatching checks since alignment was lost
    restarts,       \* history: restart pulses since alignment was lost
    trail           \* history: link states entered since alignment was lost

solver_vars == <<refclk_freq, linerate, config, error, pc>>
link_vars == <<clock_aligner, qpll_lock, tx_state, rx_state, al_ready, al_restart>>
history_vars == <<al_invoked, from_ready, mismatches, restarts, trail>>
vars == <<solver_vars, link_vars, history_vars>>

----------------------------------------------------------------------------
(* Bounds of the model *)

\* reference clocks tried: 5 MHz, 10 MHz, ... MaxRefSteps * 5 MHz
MaxRefSteps == 40
\* line rates tried: 100 Mbps, 200 Mbps, ... MaxLineSteps * 100 Mbps
MaxLineSteps == 66
\* cap of the history counters
MaxEvents == 2
\* cap of the length of the history trail
MaxTrail == 4

----------------------------------------------------------------------------
(* Fixed-point frequencies *)

kHz(x) == x * 16
MHz(x) == kHz(x * 1000)

\* Python's true division, exact on the operands compute_config gives it
TrueDiv(a, b) == a \div b

\* "{:3.2f}".format(x / unit): x in hundredths of unit, rounded to nearest
Format2f(x, unit) == (x + unit \div 200) \div (unit \div 100)

RefClkFreqs == {MHz(5 * k) : k \in 1..MaxRefSteps}
LineRates == {MHz(100 * k) : k \in 1..MaxLineSteps}

----------------------------------------------------------------------------
(* GTPQuadPLL.compute_config *)

NoConfig == [none |-> TRUE]
NoError == [type |-> "none"]

\* 1.6e9 and 3.3e9 Hz, the bounds of the VCO band
VCO_MIN == MHz(1600)
VCO_MAX == MHz(3300)

n1_values_desc == <<5, 4>>
n1_values == <<4, 5>>

n2_values == <<1, 2, 3, 4, 5>>

m_values_no2 == <<1>>
m_values == <<1, 2>>

d_values_no4 == <<1, 2, 8>>
d_values == <<1, 2, 4, 8>>

VcoFreq(refclk, n1, n2, m) == TrueDiv(refclk * (n1 * n2), m)

InBandAlways(vco_freq) == TRUE
InBand(vco_freq) == VCO_MIN <= vco_freq /\ vco_freq <= VCO_MAX

CurrentLinerateNoDouble(vco_freq, d) == TrueDiv(vco_freq, d)
CurrentLinerate(vco_freq, d) == TrueDiv(vco_freq * 2, d)

RECURSIVE LoopD(_, _, _, _, _, _, _)
LoopD(refclk, rate, n1, n2, m, vco_freq, k) ==
    IF k > Len(d_values) THEN NoConfig
    ELSE LET d == d_values[k]
             current_linerate == CurrentLinerate(vco_freq, d)
         IN  IF current_linerate = rate
             THEN [n1 |-> n1, n2 |-> n2, m |-> m, d |-> d,
                   vco_freq |-> vco_freq, clkin |-> refclk, linerate |-> rate]
             ELSE LoopD(refclk, rate, n1, n2, m, vco_freq, k + 1)

RECURSIVE LoopM(_, _, _, _, _)
LoopM(refclk, rate, n1, n2, j) ==
    IF j > Len(m_values) THEN NoConfig
    ELSE LET m == m_values[j]
             vco_freq == VcoFreq(refclk, n1, n2, m)
             found == IF InBand(vco_freq)
                      THEN LoopD(refclk, rate, n1, n2, m, vco_freq, 1)
                      ELSE NoConfig
         IN  IF found # NoConfig THEN found
             ELSE LoopM(refclk, rate, n1, n2, j + 1)

RECURSIVE LoopN2(_, _, _, _)
LoopN2(refclk, rate, n1, i) ==
    IF i > Len(n2_values) THEN NoConfig
    ELSE LET found == LoopM(refclk, rate, n1, n2_values[i], 1)
         IN  IF found # NoConfig THEN found
             ELSE LoopN2(refclk, rate, n1, i + 1)

RECURSIVE LoopN1(_, _, _)
LoopN1(refclk, rate, h) ==
    IF h > Len(n1_values) THEN NoConfig
    ELSE LET found == LoopN2(refclk, rate, n1_values[h], 1)
         IN  IF found # NoConfig THEN found
             ELSE LoopN1(refclk, rate, h + 1)

\* NoConfig stands for falling out of the loops, where the code raises
compute_config(refclk, rate) == LoopN1(refclk, rate, 1)

\* the ValueError's message: the two numbers it is formatted from
ValueErrorOf(refclk, rate) ==
    [type |-> "ValueError",
     refclk_mhz_x100 |-> Format2f(refclk, MHz(1)),
     linerate_gbps_x100 |-> Format2f(rate, MHz(1000))]

----------------------------------------------------------------------------
(* GTP.__init__: the construction-time checks on the solved configuration *)

\* 6.6e9 Hz
LINERATE_LIMIT == MHz(6600)

AssertLinerate(cfg) == cfg.linerate < LINERATE_LIMIT

rxcdr_cfgs_keys == {1, 2, 4, 8}

\* GTPQuadPLL.__init__: self.config = self.compute_config(refclk_freq, linerate)
GTPQuadPLL_init ==
    /\ pc = "start"
    /\ LET cfg == compute_config(refclk_freq, linerate)
       IN  IF cfg = NoConfig
           THEN /\ error' = ValueErrorOf(refclk_freq, linerate)
                /\ pc' = "ValueError"
                /\ config' = config
           ELSE /\ config' = cfg
                /\ pc' = "qpll"
                /\ error' = error
    /\ UNCHANGED <<refclk_freq, linerate, link_vars, history_vars>>

\* GTP.__init__ up to the GTPE2_CHANNEL instance: the assertion on the line
\* rate, then the lookup rxcdr_cfgs[qpll.config["d"]]
GTP_init ==
    /\ pc = "qpll"
    /\ IF ~AssertLinerate(config)
       THEN /\ pc' = "AssertionError"
            /\ error' = [type |-> "AssertionError"]
       ELSE IF config.d \notin rxcdr_cfgs_keys
            THEN /\ pc' = "KeyError"
                 /\ error' = [type |-> "KeyError"]
            ELSE /\ pc' = "gtp"
                 /\ error' = error
    /\ UNCHANGED <<refclk_freq, linerate, config, link_vars, history_vars>>

----------------------------------------------------------------------------
(* Bring-up: the wiring of GTP.__init__ around the QPLL, the two            *)
(* initialisers and the clock aligner                                      *)

\* GTPTXInit outputs
tx_init_pllreset == tx_state = "PllReset"
tx_init_done == tx_state = "Done"

\* GTPRXInit output
rx_init_done == rx_state = "Done"

\* self.comb += [tx_init.plllock.eq(qpll.lock), rx_init.plllock.eq(qpll.lock),
\*               qpll.reset.eq(tx_init.pllreset)]
tx_init_plllock == qpll_lock

rx_init_plllock == qpll_lock

qpll_reset_on_restart == tx_init_pllreset \/ al_restart
qpll_reset == tx_init_pllreset

\* rx_init.restart.eq(clock_aligner.restart), only in the clock_aligner branch
rx_init_restart == IF clock_aligner THEN al_restart ELSE FALSE

\* self.rx_ready.eq(clock_aligner.ready) or self.rx_ready.eq(rx_init.done)
rx_ready_aligner_only == al_ready
rx_ready == IF clock_aligner THEN al_ready ELSE rx_init_done

\* LinkState of the bring-up, read off the collaborators' outputs
LinkState ==
    IF tx_state = "Idle" THEN "Idle"
    ELSE IF tx_state \in {"PllReset", "AwaitingPLL"} THEN "AwaitingPLL"
    ELSE IF tx_state = "InitializingTransmit" THEN "InitializingTransmit"
    ELSE IF rx_init_restart THEN "Restarting"
    ELSE IF rx_ready THEN "Ready"
    ELSE IF rx_init_done THEN "AligningReceive"
    ELSE "InitializingReceive"

Min(a, b) == IF a < b THEN a ELSE b

\* PLL0LOCK of GTPE2_COMMON: an asserted PLL0RESET drops the lock
LockUnderReset == qpll_lock' = IF qpll_reset' THEN FALSE ELSE qpll_lock

\* the history trail records each link state entered while alignment is lost
Record ==
    trail' = IF /\ from_ready
                /\ trail # <<>>
                /\ trail[Len(trail)] # "Ready"
                /\ LinkState' # trail[Len(trail)]
                /\ Len(trail) < MaxTrail
             THEN Append(trail, LinkState')
             ELSE trail

\* GTPE2_COMMON: the PLL locks once its reset is released
PllLock ==
    /\ pc = "gtp"
    /\ ~qpll_reset
    /\ ~qpll_lock
    /\ qpll_lock' = TRUE
    /\ UNCHANGED <<solver_vars, clock_aligner, tx_state, rx_state, al_ready, al_restart>>
    /\ UNCHANGED <<al_invoked, from_ready, mismatches, restarts>>
    /\ Record

\* GTPTXInit: asserts the PLL reset on start
TxInitStart ==
    /\ pc = "gtp"
    /\ tx_state = "Idle"
    /\ tx_state' = "PllReset"
    /\ UNCHANGED <<solver_vars, clock_aligner, rx_state, al_ready, al_restart>>
    /\ LockUnderReset
    /\ UNCHANGED <<al_invoked, from_ready, mismatches, restarts>>
    /\ Record

\* GTPTXInit: releases the PLL reset and waits for the lock
TxInitRelease ==
    /\ pc = "gtp"
    /\ tx_state = "PllReset"
    /\ tx_state' = "AwaitingPLL"
    /\ UNCHANGED <<solver_vars, clock_aligner, rx_state, al_ready, al_restart>>
    /\ LockUnderReset
    /\ UNCHANGED <<al_invoked, from_ready, mismatches, restarts>>
    /\ Record

\* GTPTXInit: starts the transmit-path initialisation on plllock
TxInitLocked ==
    /\ pc = "gtp"
    /\ tx_state = "AwaitingPLL"
    /\ tx_init_plllock
    /\ tx_state' = "InitializingTransmit"
    /\ UNCHANGED <<solver_vars, clock_aligner, rx_state, al_ready, al_restart>>
    /\ LockUnderReset
    /\ UNCHANGED <<al_invoked, from_ready, mismatches, restarts>>
    /\ Record

\* GTPTXInit: the transmit path reports completion
TxInitDone ==
    /\ pc = "gtp"
    /\ tx_state = "InitializingTransmit"
    /\ tx_state' = "Done"
    /\ UNCHANGED <<solver_vars, clock_aligner, rx_state, al_ready, al_restart>>
    /\ LockUnderReset
    /\ UNCHANGED <<al_invoked, from_ready, mismatches, restarts>>
    /\ Record

\* GTPRXInit: starts the receive-path initialisation on plllock
RxInitLocked ==
    /\ pc = "gtp"
    /\ rx_state = "AwaitingPLL"
    /\ ~rx_init_restart
    /\ rx_init_plllock
    /\ rx_state' = "InitializingReceive"
    /\ UNCHANGED <<solver_vars, clock_aligner, tx_state, al_ready, al_restart>>
    /\ LockUnderReset
    /\ UNCHANGED <<al_invoked, from_ready, mismatches, restarts>>
    /\ Record

\* GTPRXInit: the receive path reports completion
RxInitDone ==
    /\ pc = "gtp"
    /\ rx_state = "InitializingReceive"
    /\ ~rx_init_restart
    /\ rx_state' = "Done"
    /\ UNCHANGED <<solver_vars, clock_aligner, tx_state, al_ready, al_restart>>
    /\ LockUnderReset
    /\ UNCHANGED <<al_invoked, from_ready, mismatches, restarts>>
    /\ Record

\* GTPRXInit samples the restart pulse, which lasts one cycle of its clock
RxInitRestart ==
    /\ pc = "gtp"
    /\ rx_init_restart
    /\ rx_state' = IF rx_init_plllock THEN "InitializingReceive" ELSE "AwaitingPLL"
    /\ al_restart' = FALSE
    /\ UNCHANGED <<solver_vars, clock_aligner, tx_state, al_ready>>
    /\ LockUnderReset
    /\ UNCHANGED <<al_invoked, from_ready, mismatches, restarts>>
    /\ Record

\* BruteforceClockAligner: a check period elapses and the latest symbol of
\* rx.rxdata is compared with the comma
AlignerCheck(matches) ==
    /\ pc = "gtp"
    /\ clock_aligner
    /\ ~al_restart
    /\ al_invoked' = TRUE
    /\ IF matches
       THEN /\ al_ready' = TRUE
            /\ al_restart' = FALSE
            /\ UNCHANGED <<from_ready, mismatches, restarts>>
            /\ UNCHANGED <<solver_vars, clock_aligner, tx_state, rx_state>>
            /\ LockUnderReset
            /\ Record
       ELSE /\ al_ready' = FALSE
            /\ al_restart' = TRUE
            /\ UNCHANGED <<solver_vars, clock_aligner, tx_state, rx_state>>
            /\ LockUnderReset
            /\ IF al_ready
               THEN /\ from_ready' = (LinkState = "Ready" /\ rx_init_done)
                    /\ mismatches' = 1
                    /\ restarts' = 1
                    /\ trail' = IF from_ready' THEN <<LinkState'>> ELSE <<>>
               ELSE /\ from_ready' = from_ready
                    /\ mismatches' = Min(mismatches + 1, MaxEvents)
                    /\ restarts' = Min(restarts + 1, MaxEvents)
                    /\ Record

----------------------------------------------------------------------------
(* Specifications *)

PowerOn ==
    /\ clock_aligner \in BOOLEAN
    /\ qpll_lock = FALSE
    /\ tx_state = "Idle"
    /\ rx_state = "AwaitingPLL"
    /\ al_ready = FALSE
    /\ al_restart = FALSE
    /\ al_invoked = FALSE
    /\ from_ready = FALSE
    /\ mismatches = 0
    /\ restarts = 0
    /\ trail = <<>>

\* construction of the QPLL and of the link, for every pair of inputs
SolverInit ==
    /\ refclk_freq \in RefClkFreqs
    /\ linerate \in LineRates
    /\ config = NoConfig
    /\ error = NoError
    /\ pc = "start"
    /\ PowerOn

SolverNext == GTPQuadPLL_init \/ GTP_init

SolverSpec == SolverInit /\ [][SolverNext]_vars

\* bring-up of a link constructed on a 125 MHz reference at 2.5 Gbps
Init ==
    /\ refclk_freq = MHz(125)
    /\ linerate = MHz(2500)
    /\ config = compute_config(MHz(125), MHz(2500))
    /\ error = NoError
    /\ pc = "gtp"
    /\ PowerOn

Next ==
    \/ PllLock
    \/ TxInitStart
    \/ TxInitRelease
    \/ TxInitLocked
    \/ TxInitDone
    \/ RxInitLocked
    \/ RxInitDone
    \/ RxInitRestart
    \/ \E matches \in BOOLEAN : AlignerCheck(matches)

Spec == Init /\ [][Next]_vars

----------------------------------------------------------------------------
(* Properties of the divider search, checked under SolverSpec *)

\* (n1, n2, m, d) has an in-band VCO frequency and yields the line rate
\* rate from the reference refclk, stated without any division
Satisfies(refclk, rate, n1, n2, m, d) ==
    /\ MHz(1600) * m <= refclk * n1 * n2
    /\ refclk * n1 * n2 <= MHz(3300) * m
    /\ refclk * n1 * n2 * 2 = rate * m * d

Solvable(refclk, rate) ==
    \E n1 \in {4, 5}, n2 \in 1..5, m \in {1, 2}, d \in {1, 2, 4, 8} :
        Satisfies(refclk, rate, n1, n2, m, d)

\* a comes strictly before b in the order n1, then n2, then m, then d
Before(a, b) ==
    \E i \in 1..4 : a[i] < b[i] /\ \A j \in 1..(i - 1) : a[j] = b[j]

Returned == config # NoConfig

\* C1: a returned config has n1 in {4,5}, n2 in 1..5, m in {1,2},
\* d in {1,2,4,8}, vco_freq = refclk_freq*n1*n2/m inside [1.6e9, 3.3e9],
\* vco_freq*2/d equal to the requested line rate, and its clkin and
\* linerate fields equal to the inputs.
C1_ReturnedConfigIsValid ==
    Returned =>
        /\ config.n1 \in {4, 5}
        /\ config.n2 \in 1..5
        /\ config.m \in {1, 2}
        /\ config.d \in {1, 2, 4, 8}
        /\ config.vco_freq * config.m = refclk_freq * config.n1 * config.n2
        /\ MHz(1600) <= config.vco_freq
        /\ config.vco_freq <= MHz(3300)
        /\ config.vco_freq * 2 = linerate * config.d
        /\ config.clkin = refclk_freq
        /\ config.linerate = linerate

C1_Witness == pc = "qpll" /\ Returned /\ config.m = 2 /\ config.d = 8

\* C2: compute_config raises the ValueError, formatted from the requested
\* refclk_freq and linerate, exactly when no (n1, n2, m, d) of the search
\* space has an in-band VCO frequency and the requested line rate; no config
\* is returned then.
C2_RaisesIffUnsolvable ==
    pc # "start" =>
        /\ (pc = "ValueError") <=> ~Solvable(refclk_freq, linerate)
        /\ pc = "ValueError" =>
              /\ ~Returned
              /\ error.type = "ValueError"
              /\ error.refclk_mhz_x100 * MHz(1) = refclk_freq * 100
              /\ error.linerate_gbps_x100 * MHz(10) = linerate

C2_Witness == pc = "ValueError" /\ ~Returned /\ error.type = "ValueError"

\* C3: the returned (n1, n2, m, d) is the first satisfying tuple in the
\* order n1 ascending, then n2, then m, then d; a second call on the same
\* inputs returns the same config.
C3_FirstMatchWins ==
    Returned =>
        /\ \A n1 \in {4, 5}, n2 \in 1..5, m \in {1, 2}, d \in {1, 2, 4, 8} :
               Satisfies(refclk_freq, linerate, n1, n2, m, d) =>
                   ~Before(<<n1, n2, m, d>>,
                           <<config.n1, config.n2, config.m, config.d>>)
        /\ compute_config(refclk_freq, linerate) = config

C3_Witness ==
    /\ Returned
    /\ \E n1 \in {4, 5}, n2 \in 1..5, m \in {1, 2}, d \in {1, 2, 4, 8} :
          /\ Satisfies(refclk_freq, linerate, n1, n2, m, d)
          /\ Before(<<config.n1, config.n2, config.m, config.d>>,
                    <<n1, n2, m, d>>)

At125MHz(rate) ==
    refclk_freq = MHz(125) /\ linerate = rate /\ pc # "start"

\* C4 as stated: 125 MHz and 2.5 Gbps give n1=5, n2=4, m=1, d=4 with a VCO
\* frequency of 2.5 GHz and a derived line rate of 2.5e9.
C4_AsStated ==
    At125MHz(MHz(2500)) =>
        /\ Returned
        /\ config.n1 = 5 /\ config.n2 = 4 /\ config.m = 1 /\ config.d = 4
        /\ config.vco_freq = MHz(2500)
        /\ config.vco_freq * 2 = MHz(2500) * config.d

\* C4 amended: 125 MHz and 2.5 Gbps give n1=4, n2=5, m=1, d=2 with a VCO
\* frequency of 2.5 GHz and a derived line rate of 2.5e9.
C4_Amended ==
    At125MHz(MHz(2500)) =>
        /\ Returned
        /\ config.n1 = 4 /\ config.n2 = 5 /\ config.m = 1 /\ config.d = 2
        /\ config.vco_freq = MHz(2500)
        /\ config.vco_freq * 2 = MHz(2500) * config.d

C4_Witness == At125MHz(MHz(2500)) /\ pc = "qpll"

\* C5 as stated: for 125 MHz and 1 Gbps no (n1, n2, m, d) satisfies the band
\* and the line-rate equality, and the solver fails.
C5_AsStated ==
    At125MHz(MHz(1000)) =>
        /\ ~Solvable(refclk_freq, linerate)
        /\ pc = "ValueError"

\* C5 amended: for 125 MHz and 1 Gbps the tuple n1=4, n2=4, m=1, d=4
\* satisfies both constraints with a VCO frequency of 2 GHz, and the solver
\* returns it instead of failing.
C5_Amended ==
    At125MHz(MHz(1000)) =>
        /\ Satisfies(refclk_freq, linerate, 4, 4, 1, 4)
        /\ pc # "ValueError"
        /\ Returned
        /\ config.n1 = 4 /\ config.n2 = 4 /\ config.m = 1 /\ config.d = 4
        /\ config.vco_freq = MHz(2000)

C5_Witness == At125MHz(MHz(1000)) /\ pc = "gtp"

\* C10: constructing the link on any returned config passes the assertion
\* linerate < 6.6e9, and the lookup of the solved d in rxcdr_cfgs is defined.
C10_ConstructionNeverFails ==
    Returned =>
        /\ pc \notin {"AssertionError", "KeyError"}
        /\ config.d \in {1, 2, 4, 8}

----------------------------------------------------------------------------
(* Properties of the bring-up, checked under Spec *)

TxInitStarted == tx_state \in {"InitializingTransmit", "Done"}
RxInitStarted == rx_state \in {"InitializingReceive", "Done"}

\* C6: the transmit-path initialisation has not started before the PLL
\* lock was observed, and the receive-path initialisation has not started
\* before the TX initialiser reported done.
C6_InitOrder ==
    /\ TxInitStarted => qpll_lock
    /\ RxInitStarted => tx_init_done

\* C7: a step that raises or consumes the aligner's restart pulse leaves
\* the PLL reset, the PLL lock and the TX initialiser's state and done flag
\* unchanged; consuming it puts the RX initialiser back into initialisation.
C7_RestartOnlyReceive ==
    [][(al_restart' # al_restart) =>
          /\ qpll_reset' = qpll_reset
          /\ qpll_lock' = qpll_lock
          /\ tx_state' = tx_state
          /\ tx_init_done' = tx_init_done
          /\ (al_restart /\ ~al_restart') => ~rx_init_done'
      ]_vars

C7_Witness ==
    /\ restarts > 0
    /\ ~al_restart
    /\ rx_state = "InitializingReceive"
    /\ tx_init_done
    /\ qpll_lock

\* C8: with clock_aligner false, rx_ready is asserted exactly when the RX
\* initialiser reports done, the aligner never runs, and no restart request
\* reaches the RX initialiser.
C8_NoAlignerReadyIsRxDone ==
    ~clock_aligner =>
        /\ rx_ready <=> rx_state = "Done"
        /\ ~al_invoked
        /\ ~al_ready
        /\ ~al_restart
        /\ ~rx_init_restart
        /\ restarts = 0

C8_Witness == ~clock_aligner /\ rx_state = "Done" /\ rx_ready

\* C9: when the link is back in Ready after a single mismatch from Ready
\* followed by matching symbols, exactly one restart pulse was raised and
\* the link went through Restarting, InitializingReceive and
\* AligningReceive, in that order.
C9_SingleMismatchRecovery ==
    (from_ready /\ mismatches = 1 /\ LinkState = "Ready") =>
        /\ restarts = 1
        /\ trail = <<"Restarting", "InitializingReceive",
                     "AligningReceive", "Ready">>

====
